---- MODULE Spec2Model ----
(***************************************************************************)
(* Model of homedepot: the fragment downsampler (downsample_fragment_file) *)
(* and the coordinate window calculator (gtf_to_bed.process_records).      *)
(*                                                                         *)
(* Text is modelled as a sequence of one-character strings, so that        *)
(* Python's list(str) and tuple repetition act on it as they do in the     *)
(* code.  A fragment file on disk is a sequence of lines; a line is the     *)
(* sequence of its tab separated columns, each a text.                     *)
(***************************************************************************)
EXTENDS Integers, Sequences, FiniteSets, TLC

\* ------------------------------------------------------------- bounds
MaxCount == 2
MaxFiles == 2
MaxThreads == 2
MaxSeed == 1
RngMod == 32
MaxChromLen == 4
MaxDist == 2

VARIABLES
    \* downsample_fragment_file.py
    manifest,     \* the (input_path, output_path) pairs the manifest holds
    manifestOk,   \* whether load_input_table can read and split the manifest
    threads,      \* args.threads
    disk,         \* path -> [ok, rows]: the gzip files
    seed,         \* the state of the module-level generator at start-up
    rng,          \* the state of the module-level generator `random`
    mainpc,       \* where main() is
    cstate,       \* per manifest entry: the counting future
    cresult,      \* per manifest entry: what count_fragments returned
    counts,       \* main's list `counts`, as far as list() has got
    N,            \* main's local N: <<>> while unbound, <<n>> once assigned
    dstate,       \* per manifest entry: the downsample future
    dsN,          \* per manifest entry: the N of its argument tuple
    fragments,    \* per task: downsample_file's list `fragments`
    pool,         \* per task: random.sample's list `pool`
    selected,     \* per task: random.sample's set `selected`
    sampled,      \* per task: random.sample's `result`, as far as drawn
    collapsed,    \* per task: the Counter, as <<element, count>> in insertion order
    \* gtf_to_bed.py
    row,          \* the feature the row-wise apply is at
    updist, upanchor, downdist, downanchor,
    chrom_df,     \* chrom_dict: chromosome name -> size
    ftype,        \* args.type
    ns, ne,       \* the columns "ns" and "ne" of the row
    wpc           \* where gtf_to_bed's main() is for this row

dsvars == <<manifest, manifestOk, threads, disk, seed, rng, mainpc, cstate, cresult,
            counts, N, dstate, dsN, fragments, pool, selected, sampled, collapsed>>
wvars == <<row, updist, upanchor, downdist, downanchor, chrom_df, ftype, ns, ne, wpc>>
vars == <<dsvars, wvars>>

\* ------------------------------------------------------------- data
\* File paths, by number: only which paths of a manifest are equal matters.
Paths == 1..(2 * MaxFiles)

\* The fragment keys (chrom, start, end, barcode) the files are drawn from.
Key1 == << <<"c", "1">>, <<"1">>, <<"2">>, <<"A">> >>
Key2 == << <<"c", "1">>, <<"3">>, <<"4">>, <<"B">> >>

Digits == <<"0", "1", "2", "3", "4", "5", "6", "7", "8", "9">>
IsDigit(ch) == \E d \in 1..10 : Digits[d] = ch
DigitVal(ch) == (CHOOSE d \in 1..10 : Digits[d] = ch) - 1

\* str(n) of a count n >= 0, as csv.writer writes it.
RECURSIVE IntToText(_)
IntToText(n) ==
    IF n < 10 THEN <<Digits[n + 1]>>
    ELSE IntToText(n \div 10) \o <<Digits[(n % 10) + 1]>>

\* int(text) of an unsigned decimal text; IsIntText says whether int() accepts it.
IsIntText(t) == Len(t) >= 1 /\ \A k \in 1..Len(t) : IsDigit(t[k])
RECURSIVE TextToInt(_)
TextToInt(t) ==
    IF Len(t) = 1 THEN DigitVal(t[1])
    ELSE 10 * TextToInt(SubSeq(t, 1, Len(t) - 1)) + DigitVal(t[Len(t)])

\* A line of a fragment file: its tab separated columns, each a text.
Line(key, count) == key \o <<IntToText(count)>>
CommentLine == << <<"#", "h">> >>
IsComment(line) == Len(line) >= 1 /\ Len(line[1]) >= 1 /\ line[1][1] = "#"

\* Fragment files: coordinate sorted, one line per key, counts 1..MaxCount,
\* with or without a header comment.
FileContents ==
    { <<>>, <<CommentLine, Line(Key1, 1)>> }
    \cup { <<Line(k, c)>> : k \in {Key1, Key2}, c \in 1..MaxCount }
    \cup { <<Line(Key1, c1), Line(Key2, c2)>> : c1 \in 1..MaxCount, c2 \in 1..MaxCount }

\* The files a manifest's inputs are drawn from: of total 0, 1 and MaxCount + 1
\* to 2 * MaxCount.
ManifestFiles ==
    { <<>>, <<CommentLine, Line(Key1, 1)>> }
    \cup { <<Line(Key1, c), Line(Key2, MaxCount)>> : c \in 1..MaxCount }

File(rows) == [ok |-> TRUE, rows |-> rows]
\* A path gzip.open raises on, for reading and for writing.
Denied == [ok |-> FALSE, rows |-> <<>>]

Min(S) == CHOOSE x \in S : \A y \in S : x <= y
Range(s) == { s[k] : k \in 1..Len(s) }
Tasks == 1..Len(manifest)
InPath(i) == manifest[i][1]
OutPath(i) == manifest[i][2]

\* ------------------------------------------------- count_fragments
\* The loop of count_fragments over the lines still to read: [ok, total].
\* parts[4] raises IndexError on a line of fewer than five columns and
\* int() raises ValueError on a column that is no number.
RECURSIVE CountLines(_, _)
CountLines(lines, total) ==
    IF lines = <<>> THEN [ok |-> TRUE, total |-> total]
    ELSE LET line == Head(lines) IN
         IF IsComment(line) THEN CountLines(Tail(lines), total)
         ELSE IF Len(line) < 5 \/ ~IsIntText(line[5]) THEN [ok |-> FALSE, total |-> total]
         ELSE CountLines(Tail(lines), total + TextToInt(line[5]))

count_fragments(rows) == CountLines(rows, 0)

\* --------------------------------------------------- downsample_file
\* tuple(parts[:4]) * count: the tuple's four elements, count times over.
RECURSIVE TupleTimes(_, _)
TupleTimes(t, count) ==
    IF count <= 0 THEN <<>> ELSE t \o TupleTimes(t, count - 1)

\* fragments.extend(tuple(parts[:4]) * count): every element of the repeated
\* tuple becomes an element of the list.
Extend(frags, parts, count) == frags \o TupleTimes(SubSeq(parts, 1, 4), count)

\* The reading loop of downsample_file: [ok, frags].
RECURSIVE ReadLines(_, _)
ReadLines(lines, frags) ==
    IF lines = <<>> THEN [ok |-> TRUE, frags |-> frags]
    ELSE LET line == Head(lines) IN
         IF IsComment(line) THEN ReadLines(Tail(lines), frags)
         ELSE IF Len(line) < 5 \/ ~IsIntText(line[5]) THEN [ok |-> FALSE, frags |-> frags]
         ELSE ReadLines(Tail(lines), Extend(frags, line, TextToInt(line[5])))

\* random.sample: the size up to which it copies the population into a pool.
RECURSIVE Pow4AtLeast(_, _)
Pow4AtLeast(x, p) == IF p >= x THEN p ELSE Pow4AtLeast(x, 4 * p)
SetSize(k) == IF k > 5 THEN 21 + Pow4AtLeast(3 * k, 1) ELSE 21
UsesPool(n, k) == n <= SetSize(k)

\* The module-level generator: _randbelow(n) reads its state and advances it.
RandBelow(state, n) == state % n
NextRng(state) == (5 * state + 3) % RngMod

\* collections.Counter(sampled): <<element, count>> in order of first occurrence.
Occurrences(s, x) == Cardinality({ k \in 1..Len(s) : s[k] = x })
RECURSIVE FirstSeen(_, _)
FirstSeen(s, seen) ==
    IF s = <<>> THEN <<>>
    ELSE IF Head(s) \in seen THEN FirstSeen(Tail(s), seen)
    ELSE <<Head(s)>> \o FirstSeen(Tail(s), seen \cup {Head(s)})
\* A collapse that records each sampled element once, whatever its number.
CounterOnce(s) ==
    LET keys == FirstSeen(s, {}) IN
    [k \in 1..Len(keys) |-> <<keys[k], 1>>]
Counter(s) ==
    LET keys == FirstSeen(s, {}) IN
    [k \in 1..Len(keys) |-> <<keys[k], Occurrences(s, keys[k])>>]

\* writer.writerow(list(frag) + [count]): list() of a text is its characters.
ListOf(frag) == [k \in 1..Len(frag) |-> <<frag[k]>>]
OutRow(item) == ListOf(item[1]) \o <<IntToText(item[2])>>
OutRows(coll) == [k \in 1..Len(coll) |-> OutRow(coll[k])]

\* ----------------------------------------------- ThreadPoolExecutor
Active(st) == { i \in DOMAIN st : st[i] \in {"reading", "sampling", "writing"} }
\* A worker is free, and the work queue (first in, first out) is at task i.
CanStart(st, i) ==
    /\ st[i] = "queued"
    /\ \A j \in DOMAIN st : j < i => st[j] # "queued"
    /\ Cardinality(Active(st)) < threads

\* ------------------------------------------------- the counting tasks
\* A worker takes count_fragments(p[0]) and gzip.open opens the file or raises.
CntStart(i) ==
    /\ CanStart(cstate, i)
    /\ cstate' = [cstate EXCEPT ![i] = IF disk[InPath(i)].ok THEN "reading" ELSE "failed"]
    /\ UNCHANGED <<wvars, manifest, manifestOk, threads, disk, seed, rng, mainpc, cresult, counts,
                   N, dstate, dsN, fragments, pool, selected, sampled, collapsed>>

\* The loop over the lines, and the return of the total or the raise.
CntRead(i) ==
    /\ cstate[i] = "reading"
    /\ LET r == count_fragments(disk[InPath(i)].rows) IN
       /\ cstate' = [cstate EXCEPT ![i] = IF r.ok THEN "done" ELSE "failed"]
       /\ cresult' = IF r.ok THEN [cresult EXCEPT ![i] = r.total] ELSE cresult
    /\ UNCHANGED <<wvars, manifest, manifestOk, threads, disk, seed, rng, mainpc, counts,
                   N, dstate, dsN, fragments, pool, selected, sampled, collapsed>>

\* ----------------------------------------------- the downsample tasks
\* A worker takes downsample_file(*p) and gzip.open opens the input or raises.
DsStart(i) ==
    /\ CanStart(dstate, i)
    /\ dstate' = [dstate EXCEPT ![i] = IF disk[InPath(i)].ok THEN "reading" ELSE "failed"]
    /\ UNCHANGED <<wvars, manifest, manifestOk, threads, disk, seed, rng, mainpc, cstate, cresult,
                   counts, N, dsN, fragments, pool, selected, sampled, collapsed>>

\* The reading loop, then the entry of random.sample(fragments, N): its check
\* 0 <= k <= n and the copy of the population into the pool.
DsRead(i) ==
    /\ dstate[i] = "reading"
    /\ LET r == ReadLines(disk[InPath(i)].rows, <<>>)
           n == Len(r.frags)
           k == dsN[i]
       IN  IF r.ok /\ 0 <= k /\ k <= n
           THEN /\ dstate' = [dstate EXCEPT ![i] = "sampling"]
                /\ fragments' = [fragments EXCEPT ![i] = r.frags]
                /\ pool' = [pool EXCEPT ![i] = IF UsesPool(n, k) THEN r.frags ELSE <<>>]
           ELSE /\ dstate' = [dstate EXCEPT ![i] = "failed"]
                /\ fragments' = [fragments EXCEPT ![i] = r.frags]
                /\ pool' = pool
    /\ UNCHANGED <<wvars, manifest, manifestOk, threads, disk, seed, rng, mainpc, cstate, cresult,
                   counts, N, dsN, selected, sampled, collapsed>>

\* One pass of random.sample's loop for a sample of k out of frags, from the
\* generator state s: the pool branch (n <= setsize) moves the last unselected
\* item into the vacancy, the set branch draws again on a position it has.
SampleStep(frags, k, pl, sel, res, s) ==
    LET n == Len(frags)
        done == Len(res)
    IN  IF UsesPool(n, k)
        THEN LET j == RandBelow(s, n - done) IN
             [pool |-> [pl EXCEPT ![j + 1] = pl[n - done]], selected |-> sel,
              sampled |-> Append(res, pl[j + 1]), rng |-> NextRng(s)]
        ELSE LET j == RandBelow(s, n) IN
             IF j \in sel
             THEN [pool |-> pl, selected |-> sel, sampled |-> res, rng |-> NextRng(s)]
             ELSE [pool |-> pl, selected |-> sel \cup {j},
                   sampled |-> Append(res, frags[j + 1]), rng |-> NextRng(s)]

\* One pass of the loop in task i: one _randbelow on the shared generator.
DsDraw(i) ==
    /\ dstate[i] = "sampling"
    /\ Len(sampled[i]) < dsN[i]
    /\ LET st == SampleStep(fragments[i], dsN[i], pool[i], selected[i], sampled[i], rng) IN
       /\ pool' = [pool EXCEPT ![i] = st.pool]
       /\ selected' = [selected EXCEPT ![i] = st.selected]
       /\ sampled' = [sampled EXCEPT ![i] = st.sampled]
       /\ rng' = st.rng
    /\ UNCHANGED <<wvars, manifest, manifestOk, threads, disk, seed, mainpc, cstate, cresult,
                   counts, N, dstate, dsN, fragments, collapsed>>

\* collections.Counter(sampled), then gzip.open(output_path, "wt"): it truncates
\* the file or raises.
DsOpenWrite(i) ==
    /\ dstate[i] = "sampling"
    /\ Len(sampled[i]) = dsN[i]
    /\ collapsed' = [collapsed EXCEPT ![i] = Counter(sampled[i])]
    /\ IF disk[OutPath(i)].ok
       THEN /\ dstate' = [dstate EXCEPT ![i] = "writing"]
            /\ disk' = [disk EXCEPT ![OutPath(i)] = File(<<>>)]
       ELSE /\ dstate' = [dstate EXCEPT ![i] = "failed"]
            /\ disk' = disk
    /\ UNCHANGED <<wvars, manifest, manifestOk, threads, seed, rng, mainpc, cstate, cresult,
                   counts, N, dsN, fragments, pool, selected, sampled>>

\* The writerow loop and the close of the output.
DsWrite(i) ==
    /\ dstate[i] = "writing"
    /\ disk' = [disk EXCEPT ![OutPath(i)] = File(OutRows(collapsed[i]))]
    /\ dstate' = [dstate EXCEPT ![i] = "done"]
    /\ UNCHANGED <<wvars, manifest, manifestOk, threads, seed, rng, mainpc, cstate, cresult,
                   counts, N, dsN, fragments, pool, selected, sampled, collapsed>>

\* ------------------------------------------------------------- main
\* A target taken from the first file alone.
ResolveTargetFirst(cs) == cs[1]
\* min(counts)
ResolveTarget(cs) == Min(Range(cs))

\* try: file_pairs = load_input_table(...) except: logger.info(...).  After a
\* failure main goes on and the use of the unbound file_pairs raises.
MainLoad ==
    /\ mainpc = "start"
    /\ mainpc' = IF manifestOk THEN "loaded" ELSE "raised"
    /\ UNCHANGED <<wvars, manifest, manifestOk, threads, disk, seed, rng, cstate, cresult, counts,
                   N, dstate, dsN, fragments, pool, selected, sampled, collapsed>>

\* executor.map(count_fragments ...) submits one future per manifest entry.
MainSubmitCount ==
    /\ mainpc = "loaded"
    /\ cstate' = [i \in Tasks |-> "queued"]
    /\ mainpc' = "phase1"
    /\ UNCHANGED <<wvars, manifest, manifestOk, threads, disk, seed, rng, cresult, counts,
                   N, dstate, dsN, fragments, pool, selected, sampled, collapsed>>

\* A collection that logs a failed counting task and goes on with a count of 0.
MainCollectSwallow ==
    /\ mainpc = "phase1"
    /\ Len(counts) < Len(manifest)
    /\ LET k == Len(counts) + 1 IN
       /\ cstate[k] \in {"done", "failed"}
       /\ counts' = Append(counts, IF cstate[k] = "done" THEN cresult[k] ELSE 0)
    /\ UNCHANGED <<wvars, manifest, manifestOk, threads, disk, seed, rng, mainpc, cstate,
                   cresult, N, dstate, dsN, fragments, pool, selected, sampled, collapsed>>

\* list(...) takes the next future's result, in manifest order; a future that
\* raised raises here, the iterator cancels the futures not yet started and
\* the with block waits for the running ones.
MainCollect ==
    /\ mainpc = "phase1"
    /\ Len(counts) < Len(manifest)
    /\ LET k == Len(counts) + 1 IN
       \/ /\ cstate[k] = "done"
          /\ counts' = Append(counts, cresult[k])
          /\ UNCHANGED <<mainpc, cstate>>
       \/ /\ cstate[k] = "failed"
          /\ cstate' = [i \in Tasks |-> IF cstate[i] = "queued" THEN "cancelled" ELSE cstate[i]]
          /\ mainpc' = "unwind"
          /\ counts' = counts
    /\ UNCHANGED <<wvars, manifest, manifestOk, threads, disk, seed, rng, cresult,
                   N, dstate, dsN, fragments, pool, selected, sampled, collapsed>>

\* The with block's shutdown(wait=True) while the exception propagates: main
\* ends with the exception once no counting task runs.
MainUnwind ==
    /\ mainpc = "unwind"
    /\ Active(cstate) = {}
    /\ mainpc' = "raised"
    /\ UNCHANGED <<wvars, manifest, manifestOk, threads, disk, seed, rng, cstate, cresult, counts,
                   N, dstate, dsN, fragments, pool, selected, sampled, collapsed>>

\* N = min(counts), after list() has every result; min() of no counts raises.
MainResolve ==
    /\ mainpc = "phase1"
    /\ Len(counts) = Len(manifest)
    /\ IF counts = <<>>
       THEN /\ mainpc' = "raised"
            /\ N' = N
       ELSE /\ mainpc' = "resolved"
            /\ N' = <<ResolveTarget(counts)>>
    /\ UNCHANGED <<wvars, manifest, manifestOk, threads, disk, seed, rng, cstate, cresult, counts,
                   dstate, dsN, fragments, pool, selected, sampled, collapsed>>

\* args = [(infile, outfile, N) ...]; executor.map(downsample_file ...) submits
\* one future per entry and the iterator it returns is dropped.
MainSubmitDs ==
    /\ mainpc = "resolved"
    /\ dstate' = [i \in Tasks |-> "queued"]
    /\ dsN' = [i \in Tasks |-> N[1]]
    /\ mainpc' = "phase3"
    /\ UNCHANGED <<wvars, manifest, manifestOk, threads, disk, seed, rng, cstate, cresult, counts,
                   N, fragments, pool, selected, sampled, collapsed>>

\* The with block's shutdown(wait=True): main returns once every downsample
\* future has ended, whichever way; no result is ever asked for.
MainExit ==
    /\ mainpc = "phase3"
    /\ \A i \in Tasks : dstate[i] \in {"done", "failed"}
    /\ mainpc' = "exit0"
    /\ UNCHANGED <<wvars, manifest, manifestOk, threads, disk, seed, rng, cstate, cresult, counts,
                   N, dstate, dsN, fragments, pool, selected, sampled, collapsed>>

\* ------------------------------------------------------- gtf_to_bed
Max(a, b) == IF a >= b THEN a ELSE b
Min2(a, b) == IF a <= b THEN a ELSE b

\* process_records(row, updist, upanchor, downdist, downanchor, chrom_df):
\* the pair (start, end) it returns.
process_records(r, ud, ua, dd, da, cdf) ==
    LET min_end == 0
        max_end == cdf[r.chrom]
    IN  IF r.strand = "." \/ r.strand = "+"
        THEN LET start ==
                     IF ua = "start"
                     THEN IF ud > 0 THEN Max(min_end, r.start - ud)
                                    ELSE Min2(r.start - ud, max_end)
                     ELSE IF ud > 0 THEN Max(min_end, r.end - ud)
                                    ELSE Min2(r.end - ud, max_end)
                 end ==
                     IF da = "start"
                     THEN IF dd > 0 THEN Min2(r.start + dd, max_end)
                                    ELSE Max(min_end, r.start + dd)
                     ELSE IF dd > 0 THEN Min2(r.end + dd, max_end)
                                    ELSE Max(max_end, r.end + dd)
             IN  <<start, end>>
        ELSE LET end ==
                     IF ua = "start"
                     THEN IF ud > 0 THEN Min2(r.end + ud, max_end)
                                    ELSE Max(min_end, r.end + ud)
                     ELSE IF ud > 0 THEN Min2(r.start + ud, max_end)
                                    ELSE Max(min_end, r.start + ud)
                 start ==
                     IF da = "start"
                     THEN IF dd > 0 THEN Max(min_end, r.end - dd)
                                    ELSE Min2(r.end - dd, max_end)
                     ELSE IF dd > 0 THEN Max(min_end, r.start - dd)
                                    ELSE Min2(r.start - dd, max_end)
             IN  <<start, end>>

\* input_df[chrom.isin(chrom_dict.keys())], then input_df[feature == args.type]
FilterRows ==
    /\ wpc = "read"
    /\ wpc' = IF row.chrom \in DOMAIN chrom_df /\ row.feature = ftype
              THEN "kept" ELSE "dropped"
    /\ UNCHANGED <<dsvars, row, updist, upanchor, downdist, downanchor, chrom_df, ftype,
                   ns, ne>>

\* input_df[["ns", "ne"]] = input_df.apply(process_records ...)
ApplyProcessRecords ==
    /\ wpc = "kept"
    /\ LET w == process_records(row, updist, upanchor, downdist, downanchor, chrom_df) IN
       /\ ns' = w[1]
       /\ ne' = w[2]
    /\ wpc' = "computed"
    /\ UNCHANGED <<dsvars, row, updist, upanchor, downdist, downanchor, chrom_df, ftype>>

\* input_df[ns < ne], then write_bed
WriteValid ==
    /\ wpc = "computed"
    /\ wpc' = IF ns < ne THEN "written" ELSE "discarded"
    /\ UNCHANGED <<dsvars, row, updist, upanchor, downdist, downanchor, chrom_df, ftype,
                   ns, ne>>

\* -------------------------------------------------- specifications
Pairs == Paths \X Paths
Inputs(m) == { m[i][1] : i \in 1..Len(m) }
Outputs(m) == { m[i][2] : i \in 1..Len(m) }

\* The paths of a manifest in reading order: in1, out1, in2, out2, ...
Flat(m) == [k \in 1..(2 * Len(m)) |-> m[(k + 1) \div 2][2 - (k % 2)]]
\* Manifests up to renaming of the paths: each path is 1 or at most one more
\* than the paths before it.
Canonical(m) ==
    \A k \in 1..(2 * Len(m)) :
        \E q \in {0} \cup { Flat(m)[h] : h \in 1..(k - 1) } : Flat(m)[k] <= q + 1
Manifests == { m \in UNION { [1..n -> Pairs] : n \in 0..MaxFiles } : Canonical(m) }

\* The files on disk: a path the run reads holds a fragment file or cannot be
\* opened; a path it only writes is absent (opened for writing it starts empty)
\* or cannot be opened; a path it does not name is left out of account.
Disks(m, contents) ==
    LET read == Inputs(m)
        written == Outputs(m) \ Inputs(m)
    IN  { [p \in Paths |-> IF p \in read THEN fin[p]
                           ELSE IF p \in written THEN fout[p] ELSE Denied] :
            fin \in [read -> {File(c) : c \in contents} \cup {Denied}],
            fout \in [written -> {File(<<>>), Denied}] }

TaskInit(m, ds, n) ==
    /\ manifest = m
    /\ cresult = [i \in 1..Len(m) |-> 0]
    /\ counts = <<>>
    /\ dstate = [i \in 1..Len(m) |-> ds]
    /\ dsN = [i \in 1..Len(m) |-> n]
    /\ fragments = [i \in 1..Len(m) |-> <<>>]
    /\ pool = [i \in 1..Len(m) |-> <<>>]
    /\ selected = [i \in 1..Len(m) |-> {}]
    /\ sampled = [i \in 1..Len(m) |-> <<>>]
    /\ collapsed = [i \in 1..Len(m) |-> <<>>]

WindowIdle ==
    /\ row = [chrom |-> "chr1", start |-> 0, end |-> 0, strand |-> ".", feature |-> "gene"]
    /\ updist = 0 /\ upanchor = "start" /\ downdist = 0 /\ downanchor = "start"
    /\ chrom_df = [c \in {"chr1"} |-> 0]
    /\ ftype = "gene"
    /\ ns = 0 /\ ne = 0
    /\ wpc = "none"

\* A run of downsample_fragment_file.main.
InitMain ==
    /\ manifestOk \in BOOLEAN
    /\ \E m \in Manifests :
        /\ manifestOk \/ m = <<>>
        /\ TaskInit(m, "idle", 0)
        /\ cstate = [i \in 1..Len(m) |-> "idle"]
        /\ disk \in Disks(m, ManifestFiles)
    /\ threads \in 1..MaxThreads
    /\ seed \in 0..MaxSeed
    /\ rng = seed
    /\ mainpc = "start"
    /\ N = <<>>
    /\ WindowIdle

NextMain ==
    \/ MainLoad
    \/ MainSubmitCount
    \/ \E i \in Tasks : CntStart(i)
    \/ \E i \in Tasks : CntRead(i)
    \/ MainCollect
    \/ MainUnwind
    \/ MainResolve
    \/ MainSubmitDs
    \/ \E i \in Tasks : DsStart(i)
    \/ \E i \in Tasks : DsRead(i)
    \/ \E i \in Tasks : DsDraw(i)
    \/ \E i \in Tasks : DsOpenWrite(i)
    \/ \E i \in Tasks : DsWrite(i)
    \/ MainExit

Spec == InitMain /\ [][NextMain]_vars

\* One call downsample_file(input_path, output_path, N), for any N, with the
\* generator in any state.
InitDownsample ==
    /\ manifestOk = TRUE
    /\ \E m \in { mm \in Manifests : Len(mm) = 1 }, n \in 0..(2 * MaxCount + 1) :
        /\ TaskInit(m, "queued", n)
        /\ cstate = [i \in 1..Len(m) |-> "idle"]
        /\ disk \in Disks(m, FileContents)
    /\ threads = 1
    /\ seed \in 0..(RngMod - 1)
    /\ rng = seed
    /\ mainpc = "call"
    /\ N = <<>>
    /\ WindowIdle

NextDownsample ==
    \/ \E i \in Tasks : DsStart(i)
    \/ \E i \in Tasks : DsRead(i)
    \/ \E i \in Tasks : DsDraw(i)
    \/ \E i \in Tasks : DsOpenWrite(i)
    \/ \E i \in Tasks : DsWrite(i)

SpecDownsample == InitDownsample /\ [][NextDownsample]_vars

DownsampleIdle ==
    /\ manifestOk = TRUE
    /\ TaskInit(<<>>, "idle", 0)
    /\ cstate = <<>>
    /\ disk = [p \in Paths |-> Denied]
    /\ threads = 1
    /\ seed = 0
    /\ rng = 0
    /\ mainpc = "none"
    /\ N = <<>>

Anchors == {"start", "end"}
Strands == {"+", "-", "."}

\* One row of the annotation through gtf_to_bed.main: a feature that lies on
\* its chromosome, any window, any chromosome size up to MaxChromLen.
InitWindow ==
    /\ DownsampleIdle
    /\ \E L \in 0..MaxChromLen :
        /\ chrom_df = [c \in {"chr1"} |-> L]
        /\ \E s \in 0..L, e \in 0..L :
            /\ s <= e
            /\ row \in [chrom : {"chr1", "chrUn"}, start : {s}, end : {e},
                        strand : Strands, feature : {"gene", "exon"}]
    /\ updist \in (0 - MaxDist)..MaxDist
    /\ downdist \in (0 - MaxDist)..MaxDist
    /\ upanchor \in Anchors
    /\ downanchor \in Anchors
    /\ ftype = "gene"
    /\ ns = 0 /\ ne = 0
    /\ wpc = "read"

NextWindow ==
    \/ FilterRows
    \/ ApplyProcessRecords
    \/ WriteValid

SpecWindow == InitWindow /\ [][NextWindow]_vars

\* ------------------------------------------------------------ claims
\* What the claims speak of: a file's fragment keys and their multiplicities.
DataLines(rows) == SelectSeq(rows, LAMBDA line : ~IsComment(line))
RECURSIVE SumOf(_, _)
SumOf(lines, col) ==
    IF lines = <<>> THEN 0
    ELSE TextToInt(Head(lines)[IF col = 0 THEN Len(Head(lines)) ELSE col]) + SumOf(Tail(lines), col)
\* The file's total multiplicity: the sum of its count column.
Multiplicity(rows) == SumOf(DataLines(rows), 5)
\* The multiplicity of one fragment key in the file.
KeyCount(rows, key) ==
    SumOf(SelectSeq(DataLines(rows), LAMBDA line : SubSeq(line, 1, 4) = key), 5)
\* An output row's columns before the last, and its last column.
RowKey(r) == SubSeq(r, 1, Len(r) - 1)
RowCount(r) == TextToInt(r[Len(r)])
\* The sum of the last column over the rows written.
WrittenSum(rows) == SumOf(rows, 0)
\* Task i ran on an input it did not overwrite.
Apart(i) == InPath(i) # OutPath(i)

\* C1: every key written to the output is a fragment key of the input, with an
\* output count of at most its input count.
C1_SubMultiset ==
    \A i \in Tasks :
        (dstate[i] = "done" /\ Apart(i)) =>
            \A k \in 1..Len(disk[OutPath(i)].rows) :
                LET r == disk[OutPath(i)].rows[k] IN
                RowCount(r) <= KeyCount(disk[InPath(i)].rows, RowKey(r))

\* C2: with N at most the file's total multiplicity, downsample_file does not
\* fail on files it can open, and the counts of the rows it writes sum to N.
C2_SumIsN ==
    \A i \in Tasks :
        (Apart(i) /\ disk[InPath(i)].ok /\ disk[OutPath(i)].ok
            /\ dsN[i] <= Multiplicity(disk[InPath(i)].rows)) =>
            /\ dstate[i] # "failed"
            /\ dstate[i] = "done" => WrittenSum(disk[OutPath(i)].rows) = dsN[i]

\* C2's case: a sample of three or more, collapsed into two or more rows.
C2_Witness ==
    \E i \in Tasks :
        /\ dstate[i] = "done" /\ Apart(i)
        /\ dsN[i] >= 3
        /\ dsN[i] <= Multiplicity(disk[InPath(i)].rows)
        /\ Len(disk[OutPath(i)].rows) >= 2
        /\ \E k \in 1..Len(disk[OutPath(i)].rows) : RowCount(disk[OutPath(i)].rows[k]) >= 2

\* C3: with N above the file's total multiplicity the sampling step fails, and
\* no sampled output is produced.
C3_FailsAboveTotal ==
    \A i \in Tasks :
        (Apart(i) /\ disk[InPath(i)].ok /\ dsN[i] > Multiplicity(disk[InPath(i)].rows)) =>
            /\ dstate[i] \notin {"writing", "done"}
            /\ ~(dstate[i] = "sampling" /\ Len(sampled[i]) = dsN[i])

\* The paths a running task holds open.
Touched(i) ==
    (IF cstate[i] = "reading" \/ dstate[i] = "reading" THEN {InPath(i)} ELSE {})
    \cup (IF dstate[i] = "writing" THEN {OutPath(i)} ELSE {})
\* The paths the manifest names are all different.
DisjointPaths ==
    /\ \A i \in Tasks : Apart(i)
    /\ \A i, j \in Tasks : i # j => {InPath(i), OutPath(i)} \cap {InPath(j), OutPath(j)} = {}

\* C4: N is computed only after every counting task has returned, it is the
\* minimum of the files' totals, no downsample task exists before N does, and
\* every downsample task is given that N.
C4_TargetAfterBarrier ==
    /\ N # <<>> => \A i \in Tasks : cstate[i] = "done"
    /\ (N # <<>> /\ \A i \in Tasks : dstate[i] \in {"idle", "queued"}) =>
           N[1] = Min({ Multiplicity(disk[InPath(i)].rows) : i \in Tasks })
    /\ \A i \in Tasks : dstate[i] # "idle" => (N # <<>> /\ dsN[i] = N[1])

\* C4's case: two files of different totals, both being downsampled at once.
C4_Witness ==
    /\ Len(manifest) = 2
    /\ cresult[1] > cresult[2] /\ cresult[2] >= 1
    /\ dstate[1] = "sampling" /\ dstate[2] = "sampling"
    /\ N = <<cresult[2]>>

\* C5: once a counting task has failed, the run never reaches Phase 2: N stays
\* uncomputed and no downsample task is ever started, so nothing is written.
C5_CountFailureAborts ==
    (\E i \in Tasks : cstate[i] = "failed") =>
        /\ mainpc \in {"phase1", "unwind", "raised"}
        /\ N = <<>>
        /\ \A i \in Tasks : dstate[i] = "idle"

\* C5's case: the run has ended on a failed count while another file's count
\* had returned.
C5_Witness ==
    /\ mainpc = "raised"
    /\ \E i, j \in Tasks : cstate[i] = "failed" /\ cstate[j] = "done" /\ cresult[j] >= 1

\* C6: a run in which a downsample task failed does not end as a successful run.
C6_DownsampleFailureFailsRun ==
    mainpc = "exit0" => \A i \in Tasks : dstate[i] # "failed"

\* The sample random.sample(frags, k) returns from generator state s when no
\* other task draws meanwhile: [sampled, rng].
RECURSIVE SampleAll(_, _, _, _, _, _)
SampleAll(frags, k, pl, sel, res, s) ==
    IF Len(res) >= k THEN [sampled |-> res, rng |-> s]
    ELSE LET st == SampleStep(frags, k, pl, sel, res, s) IN
         SampleAll(frags, k, st.pool, st.selected, st.sampled, st.rng)
\* Task i's sample in the run that takes the files one after the other in
\* manifest order, from the same seed.
RECURSIVE SerialSample(_)
SerialSample(i) ==
    LET s0 == IF i = 1 THEN seed ELSE SerialSample(i - 1).rng IN
    SampleAll(fragments[i], dsN[i], fragments[i], {}, <<>>, s0)

\* C7: with two or more files and a fixed seed, every file's output multiset
\* is the same under every interleaving: the one the run in manifest order
\* writes.
C7_SeedDeterminism ==
    (mainpc = "exit0" /\ Len(manifest) >= 2 /\ DisjointPaths
        /\ \A i \in Tasks : dstate[i] = "done") =>
        \A i \in Tasks :
            Range(disk[OutPath(i)].rows) = Range(OutRows(Counter(SerialSample(i).sampled)))

\* C8: no two tasks running at the same time read or write the same path.
C8_NoSharedPath ==
    \A i, j \in Tasks : i # j => Touched(i) \cap Touched(j) = {}

\* C9: on strand + or ., the window is the spec's sign dependent clamp of
\* anchor - upstream_distance and anchor + downstream_distance.
C9_ForwardWindow ==
    (wpc = "computed" /\ row.strand \in {"+", "."}) =>
        LET L == chrom_df[row.chrom]
            up == IF upanchor = "start" THEN row.start ELSE row.end
            down == IF downanchor = "start" THEN row.start ELSE row.end
        IN  /\ ns = IF updist > 0 THEN Max(0, up - updist) ELSE Min2(up - updist, L)
            /\ ne = IF downdist > 0 THEN Min2(down + downdist, L) ELSE Max(0, down + downdist)

\* C10: the window of the reflected feature (L - end, L - start) on strand - is
\* the reflection (L - b, L - a) of the window (a, b) of the feature on strand +.
C10_Mirror ==
    (wpc = "computed" /\ row.strand = "+") =>
        LET L == chrom_df[row.chrom]
            mirrored == [row EXCEPT !.start = L - row.end, !.end = L - row.start,
                                    !.strand = "-"]
        IN  process_records(mirrored, updist, upanchor, downdist, downanchor, chrom_df)
                = <<L - ne, L - ns>>

====
